---- MODULE Spec2Model ----
(***************************************************************************)
(* Model of lightbulb/commands/options.py: the OptionData schema record,   *)
(* the Option and ContextMenuOption descriptors and the typed constructors *)
(* string / integer / boolean / number.                                    *)
(***************************************************************************)
EXTENDS Integers, Sequences, FiniteSets, TLC

VARIABLES
    args,   \* the keyword arguments the command author passes at class-body time
    ctor,   \* which constructor built the class attribute ("none" before the class body ran)
    opt,    \* the descriptor object installed as class attribute, shared by all instances
    ctx,    \* instance -> instance._current_context
    last    \* the last operation performed and what it returned

vars == <<args, ctor, opt, ctx, last>>

----------------------------------------------------------------------------
(* Bounds *)

NumInstances == 2
MaxTarget == 1

----------------------------------------------------------------------------
(* Python values.  Every value is a tagged record so that values of        *)
(* different Python types are comparable and distinct.                     *)

UNDEFINED == [t |-> "UNDEFINED"]
None == [t |-> "None"]
PyInt(n) == [t |-> "int", n |-> n]
PyFloat(n) == [t |-> "float", f |-> n]
PyStr(s) == [t |-> "str", s |-> s]
PyBool(b) == [t |-> "bool", b |-> b]
PyList(items) == [t |-> "list", items |-> items]
PyCallable(f) == [t |-> "callable", f |-> f]

Snowflake(n) == [snowflake |-> n]
Snowflakes == {Snowflake(n) : n \in 1..MaxTarget}

\* hikari entities found in the resolved tables of an interaction
User(k) == [cls |-> "User", id |-> k]
Member(k) == [cls |-> "Member", id |-> k]
Message(k) == [cls |-> "Message", id |-> k]
PartialMessage(k) == [cls |-> "PartialMessage", id |-> k]

\* lightbulb.utils sentinels
EMPTY_USER == [cls |-> "User", id |-> Snowflake(0), empty |-> TRUE]
EMPTY_MESSAGE == [cls |-> "Message", id |-> Snowflake(0), empty |-> TRUE]

\* isinstance(x, hikari.User) / isinstance(x, hikari.Message):
\* Member derives from User; PartialMessage is a base of Message, not a Message.
isinstance(x, type) ==
    /\ x # None
    /\ IF type = "User" THEN x.cls \in {"User", "Member"}
                        ELSE x.cls = "Message"

\* truth value of an operand of `or`: None is false, entity objects are true
Truthy(x) == x # None

\* dict.get(key): the stored value, None on a miss
EmptyMap == [k \in {} |-> None]
MapGet(m, k) == IF k \in DOMAIN m THEN m[k] ELSE None

----------------------------------------------------------------------------
(* OptionData and schema materialization *)

_non_undefined_or(item, default) == IF item # UNDEFINED THEN item ELSE default

\* attrs defaults of the optional fields
OptionDataDefaults ==
    [default |-> UNDEFINED, choices |-> UNDEFINED, channel_types |-> UNDEFINED,
     min_value |-> UNDEFINED, max_value |-> UNDEFINED,
     min_length |-> UNDEFINED, max_length |-> UNDEFINED,
     autocomplete |-> UNDEFINED, localizations |-> UNDEFINED]

\* OptionData(**kw): keyword-only construction, absent keywords take the defaults
OptionData(kw) ==
    [f \in (DOMAIN OptionDataDefaults) \cup (DOMAIN kw) |->
        IF f \in DOMAIN kw THEN kw[f] ELSE OptionDataDefaults[f]]

\* to_command_option with the two numeric bounds written to each other's field
to_command_option_swapped(self) ==
    [type |-> self.type,
     name |-> self.name,
     description |-> self.description,
     is_required |-> self.default # UNDEFINED,
     choices |-> _non_undefined_or(self.choices, None),
     channel_types |-> _non_undefined_or(self.channel_types, None),
     min_value |-> _non_undefined_or(self.max_value, None),
     max_value |-> _non_undefined_or(self.min_value, None),
     min_length |-> _non_undefined_or(self.min_length, None),
     max_length |-> _non_undefined_or(self.max_length, None),
     autocomplete |-> self.autocomplete # UNDEFINED]

to_command_option(self) ==
    [type |-> self.type,
     name |-> self.name,
     description |-> self.description,
     is_required |-> self.default # UNDEFINED,
     choices |-> _non_undefined_or(self.choices, None),
     channel_types |-> _non_undefined_or(self.channel_types, None),
     min_value |-> _non_undefined_or(self.min_value, None),
     max_value |-> _non_undefined_or(self.max_value, None),
     min_length |-> _non_undefined_or(self.min_length, None),
     max_length |-> _non_undefined_or(self.max_length, None),
     autocomplete |-> self.autocomplete # UNDEFINED]

----------------------------------------------------------------------------
(* Descriptors *)

Option(data, default_when_not_bound) ==
    [cls |-> "Option", data |-> data, unbound_default |-> default_when_not_bound]

ContextMenuOption(type) ==
    [cls |-> "ContextMenuOption",
     type |-> type,
     data |-> OptionData([type |-> "STRING", name |-> "target", description |-> "target"]),
     unbound_default |-> IF type = "User" THEN EMPTY_USER ELSE EMPTY_MESSAGE]

string(name, description, default, choices, min_length, max_length, autocomplete) ==
    Option(OptionData([type |-> "STRING", name |-> name, description |-> description,
                       default |-> default, choices |-> choices,
                       min_length |-> min_length, max_length |-> max_length,
                       autocomplete |-> autocomplete]),
           PyStr(""))

\* integer() handing the declared default to the descriptor as its fallback
integer_default_fallback(name, description, default, choices, min_value, max_value, autocomplete) ==
    Option(OptionData([type |-> "INTEGER", name |-> name, description |-> description,
                       default |-> default, choices |-> choices,
                       min_value |-> min_value, max_value |-> max_value,
                       autocomplete |-> autocomplete]),
           _non_undefined_or(default, PyInt(0)))

integer(name, description, default, choices, min_value, max_value, autocomplete) ==
    Option(OptionData([type |-> "INTEGER", name |-> name, description |-> description,
                       default |-> default, choices |-> choices,
                       min_value |-> min_value, max_value |-> max_value,
                       autocomplete |-> autocomplete]),
           PyInt(0))

boolean(name, description, default) ==
    Option(OptionData([type |-> "BOOLEAN", name |-> name, description |-> description,
                       default |-> default]),
           PyBool(FALSE))

number(name, description, default, choices, min_value, max_value, autocomplete) ==
    Option(OptionData([type |-> "FLOAT", name |-> name, description |-> description,
                       default |-> default, choices |-> choices,
                       min_value |-> min_value, max_value |-> max_value,
                       autocomplete |-> autocomplete]),
           PyFloat(0))

----------------------------------------------------------------------------
(* Invocation contexts and command instances *)

\* a command instance, or None when the attribute is read through the class
Instances == {[inst |-> i] : i \in 1..NumInstances}

MemberMaps == {EmptyMap} \cup {(k :> Member(k)) : k \in Snowflakes}
UserMaps == {EmptyMap} \cup {(k :> User(k)) : k \in Snowflakes}
MessageMaps == {EmptyMap} \cup {(k :> Message(k)) : k \in Snowflakes}
                          \cup {(k :> PartialMessage(k)) : k \in Snowflakes}

\* interaction.resolved: None, or the resolved-entity tables
ResolvedData ==
    {[members |-> m, users |-> u, messages |-> EmptyMap] : m \in MemberMaps, u \in UserMaps}
    \cup {[members |-> EmptyMap, users |-> EmptyMap, messages |-> x] : x \in MessageMaps}

\* an invocation context, carrying its interaction
Context(target_id, resolved) ==
    [interaction |-> [target_id |-> target_id, resolved |-> resolved]]

\* the invocations the dispatch layer may bind: well-formed ones, ones whose
\* interaction has no target_id, and ones whose interaction has no resolved data
Contexts ==
    {Context(tid, r) : tid \in Snowflakes, r \in ResolvedData}
    \cup {Context(None, r) : r \in {x \in ResolvedData :
                                       \/ x.members # EmptyMap /\ x.users # EmptyMap
                                       \/ \E k \in DOMAIN x.messages :
                                              x.messages[k].cls = "Message"}}
    \cup {Context(tid, None) : tid \in Snowflakes}

\* what instance._.resolve_option(context, option) can do: return a value
\* (possibly one equal to the fallback or to the declared default) or fail
ResolverValues == {PyInt(0), PyInt(5), PyInt(7)}
ResolverErrors == {"OptionResolutionError"}
ResolverReplies ==
    {[kind |-> "return", value |-> v] : v \in ResolverValues}
    \cup {[kind |-> "raise", error |-> e] : e \in ResolverErrors}

\* outcome of a read: the value returned or the exception raised, the calls
\* made to the value resolver (as a recording stub logs them: arguments and
\* reply) and the resolved tables consulted, in order
Return(v, calls, lookups) ==
    [kind |-> "return", value |-> v, calls |-> calls, lookups |-> lookups]
Raise(e, calls, lookups) ==
    [kind |-> "raise", error |-> e, calls |-> calls, lookups |-> lookups]

\* `instance is None or instance._current_context is None`
IsUnbound(instance, ctxmap) == instance = None \/ ctxmap[instance] = None

\* an ambient "invocation in flight" shared by all instances instead of the
\* slot of the instance being read
CurrentContext_ambient(instance, ctxmap) ==
    ctxmap[CHOOSE j \in DOMAIN ctxmap : ctxmap[j] # None]

\* `instance._current_context`
CurrentContext(instance, ctxmap) == ctxmap[instance]

\* one call instance._.resolve_option(context, option) that replied `reply`
ResolverCall(context, option, reply) ==
    [context |-> context, option |-> option, reply |-> reply]

\* Option.__get__ taking the fallback path for the class-level read only
OptionGet_class_only(self, instance, ctxmap) ==
    IF instance = None
    THEN {Return(self.unbound_default, <<>>, <<>>)}
    ELSE LET context == ctxmap[instance] IN
         {IF reply.kind = "return"
          THEN Return(reply.value, <<ResolverCall(context, self, reply)>>, <<>>)
          ELSE Raise(reply.error, <<ResolverCall(context, self, reply)>>, <<>>)
            : reply \in ResolverReplies}

\* Option.__get__ falling back to the placeholder when the resolved value is
\* the declared default
OptionGet_default_fallback(self, instance, ctxmap) ==
    IF instance = None \/ ctxmap[instance] = None
    THEN {Return(self.unbound_default, <<>>, <<>>)}
    ELSE LET context == ctxmap[instance] IN
         {IF reply.kind = "return"
          THEN Return(IF reply.value = self.data.default THEN self.unbound_default
                      ELSE reply.value,
                      <<ResolverCall(context, self, reply)>>, <<>>)
          ELSE Raise(reply.error, <<ResolverCall(context, self, reply)>>, <<>>)
            : reply \in ResolverReplies}

\* Option.__get__ swallowing a resolver failure
OptionGet_swallow(self, instance, ctxmap) ==
    IF instance = None \/ ctxmap[instance] = None
    THEN {Return(self.unbound_default, <<>>, <<>>)}
    ELSE LET context == ctxmap[instance] IN
         {IF reply.kind = "return"
          THEN Return(reply.value, <<ResolverCall(context, self, reply)>>, <<>>)
          ELSE Return(self.unbound_default, <<ResolverCall(context, self, reply)>>, <<>>)
            : reply \in ResolverReplies}

\* Option.__get__
OptionGet(self, instance, ctxmap) ==
    IF IsUnbound(instance, ctxmap)
    THEN {Return(self.unbound_default, <<>>, <<>>)}
    ELSE LET context == CurrentContext(instance, ctxmap) IN
         {IF reply.kind = "return"
          THEN Return(reply.value, <<ResolverCall(context, self, reply)>>, <<>>)
          ELSE Raise(reply.error, <<ResolverCall(context, self, reply)>>, <<>>)
            : reply \in ResolverReplies}

\* the User branch looking the target up among users before members
ResolveUser_users_first(resolved, target_id) ==
    LET u == MapGet(resolved.users, target_id)
        user == IF Truthy(u) THEN u ELSE MapGet(resolved.members, target_id)
        lookups == IF Truthy(u) THEN <<"users">> ELSE <<"users", "members">>
    IN  IF isinstance(user, "User")
        THEN Return(user, <<>>, lookups)
        ELSE Raise("AssertionError", <<>>, lookups)

\* the User branch of ContextMenuOption.__get__
ResolveUser(resolved, target_id) ==
    LET member == MapGet(resolved.members, target_id)
        user == IF Truthy(member) THEN member ELSE MapGet(resolved.users, target_id)
        lookups == IF Truthy(member) THEN <<"members">> ELSE <<"members", "users">>
    IN  IF isinstance(user, "User")
        THEN Return(user, <<>>, lookups)
        ELSE Raise("AssertionError", <<>>, lookups)

\* the Message branch substituting the sentinel instead of failing
ResolveMessage_sentinel(resolved, target_id) ==
    LET message == MapGet(resolved.messages, target_id) IN
    IF isinstance(message, "Message")
    THEN Return(message, <<>>, <<"messages">>)
    ELSE Return(EMPTY_MESSAGE, <<>>, <<"messages">>)

\* the Message branch of ContextMenuOption.__get__
ResolveMessage(resolved, target_id) ==
    LET message == MapGet(resolved.messages, target_id) IN
    IF isinstance(message, "Message")
    THEN Return(message, <<>>, <<"messages">>)
    ELSE Raise("AssertionError", <<>>, <<"messages">>)

\* ContextMenuOption.__get__ treating an invocation without resolved data as
\* if no invocation were bound
ContextMenuOptionGet_lenient(self, instance, ctxmap) ==
    IF instance = None \/ ctxmap[instance] = None
    THEN {Return(self.unbound_default, <<>>, <<>>)}
    ELSE LET interaction == ctxmap[instance].interaction
             resolved == interaction.resolved
         IN  IF resolved = None THEN {Return(self.unbound_default, <<>>, <<>>)}
             ELSE IF interaction.target_id = None THEN {Raise("AssertionError", <<>>, <<>>)}
             ELSE IF self.type = "User" THEN {ResolveUser(resolved, interaction.target_id)}
             ELSE {ResolveMessage(resolved, interaction.target_id)}

\* ContextMenuOption.__get__
ContextMenuOptionGet(self, instance, ctxmap) ==
    IF IsUnbound(instance, ctxmap)
    THEN {Return(self.unbound_default, <<>>, <<>>)}
    ELSE LET interaction == CurrentContext(instance, ctxmap).interaction
             resolved == interaction.resolved
         IN  IF resolved = None THEN {Raise("AssertionError", <<>>, <<>>)}
             ELSE IF interaction.target_id = None THEN {Raise("AssertionError", <<>>, <<>>)}
             ELSE IF self.type = "User" THEN {ResolveUser(resolved, interaction.target_id)}
             ELSE {ResolveMessage(resolved, interaction.target_id)}

\* attribute read `instance.attr` / `Class.attr`: Python dispatches to the
\* __get__ of the descriptor's class
Get(self, instance, ctxmap) ==
    IF self.cls = "ContextMenuOption"
    THEN ContextMenuOptionGet(self, instance, ctxmap)
    ELSE OptionGet(self, instance, ctxmap)

----------------------------------------------------------------------------
(* Inputs *)

NoOption == [cls |-> "none"]
NoOp == [op |-> "none", instance |-> None, out |-> None]

Names == {"age", "q"}
Descriptions == {"desc"}
Defaults == {UNDEFINED, None, PyInt(5)}
Choices == {UNDEFINED, PyList(<<"a", "b">>)}
ChannelTypes == {UNDEFINED, PyList(<<"GUILD_TEXT">>)}
Limits == {UNDEFINED, PyInt(0), PyInt(120)}
Autocompletes == {UNDEFINED, PyBool(FALSE), PyCallable("cb")}
OptionTypes == {"STRING", "INTEGER", "BOOLEAN", "FLOAT"}
TargetTypes == {"User", "Message"}

\* every combination of keyword arguments
AllArgs ==
    [name : Names, description : Descriptions, default : Defaults, choices : Choices,
     channel_types : ChannelTypes, lo : Limits, hi : Limits, autocomplete : Autocompletes]

\* the declarations used while exercising binding and reads
FewArgs ==
    {a \in AllArgs : /\ a.name = "age"
                     /\ a.default = PyInt(5)
                     /\ a.choices = UNDEFINED /\ a.channel_types = UNDEFINED
                     /\ a.lo = PyInt(0) /\ a.hi = PyInt(120)
                     /\ a.autocomplete = UNDEFINED}

----------------------------------------------------------------------------
(* Actions *)

Declared(c, o) ==
    /\ ctor = "none"
    /\ ctor' = c
    /\ opt' = o
    /\ last' = [op |-> "declare", instance |-> None, out |-> None]
    /\ UNCHANGED <<args, ctx>>

\* class body: attr = lightbulb.string(name, description, ...)
DeclareString ==
    Declared("string", string(args.name, args.description, args.default, args.choices,
                              args.lo, args.hi, args.autocomplete))

DeclareInteger ==
    Declared("integer", integer(args.name, args.description, args.default, args.choices,
                                args.lo, args.hi, args.autocomplete))

DeclareBoolean ==
    Declared("boolean", boolean(args.name, args.description, args.default))

DeclareNumber ==
    Declared("number", number(args.name, args.description, args.default, args.choices,
                              args.lo, args.hi, args.autocomplete))

\* class body: attr = Option(OptionData(...), fallback), the record built directly
DeclareOption ==
    \E type \in OptionTypes :
        Declared("Option",
                 Option(OptionData([type |-> type, name |-> args.name,
                                    description |-> args.description,
                                    default |-> args.default, choices |-> args.choices,
                                    channel_types |-> args.channel_types,
                                    min_value |-> args.lo, max_value |-> args.hi,
                                    min_length |-> args.hi, max_length |-> args.lo,
                                    autocomplete |-> args.autocomplete]),
                        PyStr("unbound")))

\* class body: target = ContextMenuOption(hikari.User | hikari.Message)
DeclareContextMenuOption ==
    \E type \in TargetTypes : Declared("ContextMenuOption", ContextMenuOption(type))

\* registration: opt._data.to_command_option()
Materialize ==
    /\ ctor # "none"
    /\ last' = [op |-> "to_command_option", instance |-> None,
                out |-> to_command_option(opt.data)]
    /\ UNCHANGED <<args, ctor, opt, ctx>>

\* the dispatch layer binds an invocation onto an instance, once per instance
Bind(i, X) ==
    /\ ctor # "none"
    /\ ctx[i] = None
    /\ ctx' = [ctx EXCEPT ![i] = X]
    /\ last' = [op |-> "bind", instance |-> i, out |-> None]
    /\ UNCHANGED <<args, ctor, opt>>

\* Class.attr (instance = None) or instance.attr
Read(i) ==
    /\ ctor # "none"
    /\ \E o \in Get(opt, i, ctx) :
           last' = [op |-> "get", instance |-> i, out |-> o]
    /\ UNCHANGED <<args, ctor, opt, ctx>>

InitWith(A) ==
    /\ args \in A
    /\ ctor = "none"
    /\ opt = NoOption
    /\ ctx = [i \in Instances |-> None]
    /\ last = NoOp

Declare ==
    \/ DeclareString
    \/ DeclareInteger
    \/ DeclareBoolean
    \/ DeclareNumber
    \/ DeclareOption
    \/ DeclareContextMenuOption

\* declaration, binding and reads
Init == InitWith(FewArgs)

Next ==
    \/ Declare
    \/ Materialize
    \/ \E i \in Instances, X \in Contexts : Bind(i, X)
    \/ \E i \in Instances \cup {None} : Read(i)

Spec == Init /\ [][Next]_vars

\* declaration and schema materialization over every argument combination
InitSchema == InitWith(AllArgs)

NextSchema ==
    \/ Declare
    \/ Materialize
    \/ \E i \in Instances \cup {None} : Read(i)

SpecSchema == InitSchema /\ [][NextSchema]_vars

----------------------------------------------------------------------------
(* Schema materialization and typed constructors (checked under SpecSchema) *)

Materialized == last.op = "to_command_option"
TypedCtors == {"string", "integer", "boolean", "number"}

\* C1: the materialized fragment has is_required = true exactly when the
\* record's default is UNDEFINED, for records built directly and for records
\* built by the typed constructors.
C1_RequiredIffDefaultUnset ==
    (Materialized /\ ctor \in TypedCtors \cup {"Option"})
        => (last.out.is_required <=> (opt.data.default = UNDEFINED))

\* the absent value for an unset field, the stored value otherwise
Transcribed(field) == IF field = UNDEFINED THEN None ELSE field

\* C8: to_command_option() copies kind, name and description, maps each unset
\* constraint to None and each present one to its stored value, reports
\* autocomplete as the boolean "stored field is not unset", and for integer(...)
\* yields kind INTEGER with the given name and bounds, choices/channel kinds
\* absent when not given.
C8_Transcription ==
    Materialized =>
        LET d == opt.data
            f == last.out
        IN  /\ f.type = d.type /\ f.name = d.name /\ f.description = d.description
            /\ f.choices = Transcribed(d.choices)
            /\ f.channel_types = Transcribed(d.channel_types)
            /\ f.min_value = Transcribed(d.min_value)
            /\ f.max_value = Transcribed(d.max_value)
            /\ f.min_length = Transcribed(d.min_length)
            /\ f.max_length = Transcribed(d.max_length)
            /\ f.autocomplete \in BOOLEAN
            /\ f.autocomplete <=> (d.autocomplete # UNDEFINED)
            /\ ctor = "integer" =>
                   /\ f.type = "INTEGER" /\ f.name = args.name
                   /\ f.min_value = Transcribed(args.lo)
                   /\ f.max_value = Transcribed(args.hi)
                   /\ f.choices = Transcribed(args.choices)
                   /\ f.channel_types = None
                   /\ f.min_length = None /\ f.max_length = None

\* an integer option with min_value > max_value and a stored autocomplete of
\* False has been materialized
C8_Witness ==
    /\ Materialized /\ ctor = "integer"
    /\ args.lo = PyInt(120) /\ args.hi = PyInt(0)
    /\ args.choices = UNDEFINED
    /\ args.autocomplete = PyBool(FALSE)
    /\ last.out.min_value = PyInt(120) /\ last.out.max_value = PyInt(0)
    /\ last.out.choices = None /\ last.out.autocomplete = TRUE

\* the zero value of each typed constructor's logical type
ZeroValue(c) ==
    CASE c = "string" -> PyStr("")
      [] c = "integer" -> PyInt(0)
      [] c = "boolean" -> PyBool(FALSE)
      [] c = "number" -> PyFloat(0)

\* C7: an unbound read of a descriptor built by a typed constructor returns
\* the zero value of its kind, whatever default was passed to the constructor.
C7_UnboundZeroValue ==
    (last.op = "get" /\ ctor \in TypedCtors /\ IsUnbound(last.instance, ctx))
        => /\ last.out.kind = "return"
           /\ last.out.value = ZeroValue(ctor)

\* integer(..., default=5) was read through the class and gave 0
C7_Witness ==
    /\ last.op = "get" /\ last.instance = None /\ ctor = "integer"
    /\ args.default = PyInt(5) /\ opt.data.default = PyInt(5)
    /\ last.out.kind = "return" /\ last.out.value = PyInt(0)

----------------------------------------------------------------------------
(* Binding protocol (checked under Spec) *)

\* the last operation was a read; the contexts are those it saw, since every
\* bind overwrites `last`
WasRead == last.op = "get"
BoundRead == WasRead /\ ~IsUnbound(last.instance, ctx)
Sentinels == {EMPTY_USER, EMPTY_MESSAGE}

\* C2: a read through the class, or through an instance whose current
\* invocation is None, returns the descriptor's unbound_default, calls no
\* resolver, consults no resolved table and does not fail.
C2_UnboundRead ==
    (WasRead /\ (last.instance = None \/ ctx[last.instance] = None))
        => /\ last.out.kind = "return"
           /\ last.out.value = opt.unbound_default
           /\ last.out.calls = <<>>
           /\ last.out.lookups = <<>>

\* a fresh instance was read while another instance was bound
C2_Witness ==
    /\ WasRead /\ last.instance \in Instances /\ ctx[last.instance] = None
    /\ \E j \in Instances : ctx[j] # None
    /\ last.out.kind = "return" /\ last.out.value = opt.unbound_default

\* C3: a read of a generic Option through an instance bound to X calls the
\* resolver exactly once with (X, the descriptor) and returns the resolver's
\* value unchanged.
C3_BoundReadDelegates ==
    (BoundRead /\ opt.cls = "Option")
        => /\ Len(last.out.calls) = 1
           /\ last.out.calls[1].context = ctx[last.instance]
           /\ last.out.calls[1].option = opt
           /\ last.out.calls[1].reply.kind = "return"
                  => /\ last.out.kind = "return"
                     /\ last.out.value = last.out.calls[1].reply.value

\* the resolver returned the declared default 5 for integer(default=5), whose
\* fallback is 0, and the read returned 5
C3_Witness ==
    /\ BoundRead /\ opt.cls = "Option" /\ ctor = "integer"
    /\ opt.data.default = PyInt(5)
    /\ Len(last.out.calls) = 1
    /\ last.out.calls[1].reply = [kind |-> "return", value |-> PyInt(5)]
    /\ last.out.kind = "return" /\ last.out.value = PyInt(5)

\* the binding table with every instance but i unbound
OnlyOwn(i, ctxmap) == [j \in DOMAIN ctxmap |-> IF j = i THEN ctxmap[j] ELSE None]

\* C4: with one descriptor shared by all instances and the class, a read's
\* result depends only on the current invocation of the instance read
\* through; a bind on one instance changes no other instance's (nor the
\* class's) read; a read changes neither the descriptor nor any binding.
C4_SharedDescriptor ==
    [][ /\ last'.op = "get" =>
            /\ opt' = opt /\ ctx' = ctx
            /\ last'.out \in Get(opt, last'.instance, OnlyOwn(last'.instance, ctx))
        /\ (ctor # "none" /\ last'.op = "bind") =>
            /\ opt' = opt
            /\ \A i \in Instances \cup {None} :
                   (i = None \/ ctx'[i] = ctx[i])
                       => Get(opt', i, ctx') = Get(opt, i, ctx)
      ]_vars

\* an instance was read while it and another instance held different
\* invocations
C4_Witness ==
    /\ BoundRead
    /\ \E j \in Instances :
           /\ j # last.instance /\ ctx[j] # None
           /\ ctx[j] # ctx[last.instance]
    /\ last.out.kind = "return"

\* the bound invocation's interaction, for a context-menu read
Interaction == ctx[last.instance].interaction
WellFormed == Interaction.resolved # None /\ Interaction.target_id # None
UserRead == BoundRead /\ opt.cls = "ContextMenuOption" /\ opt.type = "User"
MessageRead == BoundRead /\ opt.cls = "ContextMenuOption" /\ opt.type = "Message"

\* C5: a User context-menu read returns the member stored under target_id
\* when there is one, even if a user is stored too, and the user stored under
\* target_id when only that exists.
C5_MemberPrecedence ==
    (UserRead /\ WellFormed) =>
        LET t == Interaction.target_id
            r == Interaction.resolved
        IN  /\ t \in DOMAIN r.members
                => (last.out.kind = "return" /\ last.out.value = r.members[t])
            /\ (t \notin DOMAIN r.members /\ t \in DOMAIN r.users)
                => (last.out.kind = "return" /\ last.out.value = r.users[t])

\* both tables held the target and the member was returned
C5_Witness ==
    /\ UserRead /\ WellFormed
    /\ Interaction.target_id \in DOMAIN Interaction.resolved.members
    /\ Interaction.target_id \in DOMAIN Interaction.resolved.users
    /\ last.out.kind = "return"
    /\ last.out.value = Member(Interaction.target_id)

\* the entries the read may return: those stored under target_id in the
\* table(s) matching the declared type that pass the type check
Candidates ==
    IF ~WellFormed THEN {}
    ELSE LET t == Interaction.target_id
             r == Interaction.resolved
             found == IF opt.type = "User"
                      THEN (IF t \in DOMAIN r.members THEN {r.members[t]}
                            ELSE IF t \in DOMAIN r.users THEN {r.users[t]} ELSE {})
                      ELSE (IF t \in DOMAIN r.messages THEN {r.messages[t]} ELSE {})
         IN  {e \in found : e.cls \in (IF opt.type = "User" THEN {"User", "Member"}
                                       ELSE {"Message"})}

\* C6: a bound context-menu read returns the entity stored under target_id in
\* the matching table or fails; with the target absent, the resolved data or
\* target_id missing, or the entry of the wrong type, it fails, and it never
\* returns EMPTY_USER / EMPTY_MESSAGE.
C6_FailsLoudly ==
    (UserRead \/ MessageRead) =>
        /\ last.out.kind \in {"return", "raise"}
        /\ last.out.kind = "return" =>
               (last.out.value \in Candidates /\ last.out.value \notin Sentinels)
        /\ Candidates = {} => last.out.kind = "raise"

\* a Message read found only a partial message under the target and failed
C6_Witness ==
    /\ MessageRead /\ WellFormed
    /\ Interaction.target_id \in DOMAIN Interaction.resolved.messages
    /\ Interaction.resolved.messages[Interaction.target_id].cls = "PartialMessage"
    /\ last.out.kind = "raise"

\* C9: when the resolver fails during a bound read of a generic Option, the
\* read fails with that same failure after that single call, and the read
\* changes neither the instance's invocation nor the descriptor.
C9_FailurePropagates ==
    [][ (/\ last'.op = "get" /\ opt.cls = "Option"
         /\ ~IsUnbound(last'.instance, ctx)
         /\ Len(last'.out.calls) >= 1
         /\ last'.out.calls[1].reply.kind = "raise")
            => /\ last'.out.kind = "raise"
               /\ last'.out.error = last'.out.calls[1].reply.error
               /\ Len(last'.out.calls) = 1
               /\ ctx' = ctx /\ opt' = opt
      ]_vars

\* a bound read of integer(default=5) failed with the resolver's error
C9_Witness ==
    /\ BoundRead /\ opt.cls = "Option" /\ opt.data.default = PyInt(5)
    /\ Len(last.out.calls) = 1
    /\ last.out.calls[1].reply.kind = "raise"
    /\ last.out.kind = "raise" /\ last.out.error = "OptionResolutionError"

====
